---- MODULE Spec2Model ----
(***************************************************************************)
(* State-machine model of the stadium front-end (StadiumApp and its        *)
(* collaborators): the scale-based visibility update run by every frame,   *)
(* the asynchronous stadium load inside init, the intro zoom sequence and  *)
(* the key-jump commands.                                                  *)
(*                                                                         *)
(* Geometry is reduced to one axis: the camera and the orbit target are    *)
(* points on the z axis, so camera.position.distanceTo(controls.target)    *)
(* is |cameraZ - target|.  Durations are in tenths of a second.            *)
(***************************************************************************)
EXTENDS Integers, Sequences, FiniteSets, TLC

VARIABLES
  initPc,                \* position of init(): "new", "loading" (at the await), "ready"
  inits,                 \* number of init() calls made
  loadOutcome,           \* the loadStadium promise awaited by init(): "none" (not
                         \* created), "pending", "resolved", "rejected"
  gsapPresent,           \* typeof gsap !== 'undefined'
  started,               \* start() has been called
  rafPending,            \* frame callbacks scheduled with requestAnimationFrame
  listeners,             \* keydown/resize listener pairs registered
  cameraZ,               \* camera.position (meaningful once initPc # "new")
  controls,              \* OrbitControls: enableRotate, enableZoom, enablePan, target
                         \* (created by init(); holds a new object's values before)
  currentZoomScale,      \* appState.currentZoomScale
  sphereVisible,         \* appState.sphereVisible
  stadiumDetailVisible,  \* appState.stadiumDetailVisible
  hasSeenIntroSequence,  \* appState.hasSeenIntroSequence
  stadiumLoaded,         \* sceneElements.stadium is defined
  stadiumVisible,        \* stadium.visible
  tweens,                \* camera tweens in flight, in creation order
  aspect,                \* camera.aspect as last set from the window size
  threw,                 \* a frame dereferenced an undefined stadium
  sphereApplied,         \* visibility last applied to the sphere object
  \* ---- observation (history) variables ----
  lastCalls,             \* Scene Object calls issued by the last frame
  lastBatch,             \* the last frame called updateElementVisibility
  lastClass,             \* classification computed by the last frame ("none" before it)
  scen,                  \* distances of the latest frames while they follow a scenario
  scenBatches,           \* updateElementVisibility calls since scen started
  introRuns,             \* startIntroSequence invocations
  introCmds,             \* intro camera animation commands issued
  introCompletions,      \* intro onComplete callbacks run
  lastCmd,               \* target of the latest camera animation command (0: none yet)
  \* ---- the scene objects taken on their own ----
  stadiumObj,            \* a stadium scene object: visible flags, meshes, materials
  promise,               \* the promise returned by StadiumLoader.loadStadium
  progress,              \* progress callbacks the loader has made for that request
  sphereObj,             \* the Sphere's group: scale and line opacity
  requests,              \* gsap.to requests issued by the last component call
  callThrew,             \* the last component call threw
  lastCall,              \* the last component call and its arguments
  fades,                 \* stadium materials with an opacity tween in flight
  \* ---- the performance utilities taken on their own ----
  env,                   \* navigator.userAgent, navigator.hardwareConcurrency,
                         \* window.devicePixelRatio
  config,                \* the AppConfig last returned by detectPerformance
  settingsInput,         \* the AppConfig last passed to getPerformanceSettings
  settings,              \* the settings last returned by getPerformanceSettings
  \* ---- the floodlight rig ----
  floodlights,           \* intensity of each floodlight, in tenths
  lightTweens            \* intensity tweens in flight on the floodlights

objVars == <<stadiumObj, promise, progress, sphereObj, requests, callThrew,
             lastCall, fades>>
perfVars == <<env, config, settingsInput, settings>>
lightVars == <<floodlights, lightTweens>>

vars == <<initPc, inits, loadOutcome, gsapPresent, started, rafPending,
          listeners, cameraZ,
          controls, currentZoomScale, sphereVisible, stadiumDetailVisible,
          hasSeenIntroSequence, stadiumLoaded, stadiumVisible, tweens, aspect,
          threw, sphereApplied, lastCalls, lastBatch, lastClass, scen,
          scenBatches,
          introRuns, introCmds, introCompletions, lastCmd, objVars, perfVars,
          lightVars>>

appVars == <<currentZoomScale, sphereVisible, stadiumDetailVisible>>
obsFrameVars == <<lastCalls, lastBatch, lastClass, scen, scenBatches>>
introObs == <<introRuns, introCmds, introCompletions>>

(***************************************************************************)
(* Program constants                                                       *)
(***************************************************************************)
SPHERE_MIN == 2500
STADIUM_MIN == 500
DETAIL_MIN == 1
STADIUM_MAX == 2500
DETAIL_MAX == 500
SPHERE_START == 4000
DETAIL_END == 31
MinDistance == 1
MaxDistance == 6000
INTRO_ZOOM == 50
KeyJumpDuration == 15
SphereFadeDefault == 8
StadiumFadeDefault == 8
FloodlightFadeDefault == 8
LowIntensity == 20
DetailIntensity == 80
FlickerAmplitude == 15
RandomAmplitude == 2

(***************************************************************************)
(* Bounds of the model                                                     *)
(***************************************************************************)
TickLen == 20
MaxInits == 2
MaxProgress == 2
MantissaBits == 12
NumFloodlights == 1
MaxIntensity == 110

ZoomScales == {"sphere", "stadium", "detail"}
DollyDistances == {1, 100, 300, 500, 1800, 2000, 2500, 2600, 3000}
PanTargets == {0, DETAIL_END}
Keys == {"g", "d", "x"}
Aspects == {"landscape", "portrait"}
UserInputs ==
  {[kind |-> "none", v |-> 0]}
    \cup {[kind |-> "dolly", v |-> d] : d \in DollyDistances}
    \cup {[kind |-> "pan", v |-> t] : t \in PanTargets}

Scenarios ==
  { <<3000, 3000, 1800, 1800, 300>>,
    <<2600, 2000, 100>>,
    <<3000, 1800, 300, 1800, 3000>>,
    <<2500, 500, 1, 0>> }

(***************************************************************************)
(* Pure helpers                                                            *)
(***************************************************************************)
Abs(x) == IF x < 0 THEN 0 - x ELSE x

Distance(cz, target) == Abs(cz - target)

\* Variant: the thresholds compared with > instead of >=.
classifyExclusiveMin(distance) ==
  IF distance > SPHERE_MIN THEN "sphere"
  ELSE IF distance > STADIUM_MIN THEN "stadium"
  ELSE "detail"

\* Variant: the sphere threshold itself is not sphere.
classifyAboveSphereMin(distance) ==
  IF distance > SPHERE_MIN THEN "sphere"
  ELSE IF distance >= STADIUM_MIN THEN "stadium"
  ELSE "detail"

classify(distance) ==
  IF distance >= SPHERE_MIN THEN "sphere"
  ELSE IF distance >= STADIUM_MIN THEN "stadium"
  ELSE "detail"

\* Variant: the change guard dropped, every frame updates the elements.
ScaleChangedAlways(newScale, cur) == TRUE

\* Variant: a change into the detail scale goes unnoticed.
ScaleChangedNotDetail(newScale, cur) == newScale # cur /\ newScale # "detail"

ScaleChanged(newScale, cur) == newScale # cur

shouldShowSphere(scale) == scale = "sphere"

\* Variant: the stadium is shown at the detail scale only.
shouldShowStadiumDetailOnly(scale) == scale = "detail"

shouldShowStadium(scale) == scale # "sphere"

\* Variant: high-detail lighting whenever the sphere is not shown.
shouldShowDetailOffSphere(scale) == scale # "sphere"

shouldShowDetail(scale) == scale = "detail"

\* Variant: the presence check of the stadium dropped.
HasStadiumUnchecked(loaded) == TRUE

HasStadium(loaded) == loaded

SphereCall(visible) ==
  [obj |-> "sphere", on |-> visible, duration |-> SphereFadeDefault]

StadiumCall(visible) ==
  [obj |-> "stadium", on |-> visible, duration |-> StadiumFadeDefault]

FloodlightCall(isDetailMode) ==
  [obj |-> "lighting", on |-> isDetailMode, duration |-> FloodlightFadeDefault]

\* The calls updateElementVisibility issues, in the order it issues them.
ElementCalls(scale, sphVis, detVis, loaded) ==
  (IF shouldShowSphere(scale) # sphVis
     THEN <<SphereCall(shouldShowSphere(scale))>> ELSE <<>>)
  \o (IF HasStadium(loaded)
        THEN <<StadiumCall(shouldShowStadium(scale))>> ELSE <<>>)
  \o (IF shouldShowDetail(scale) # detVis
        THEN <<FloodlightCall(shouldShowDetail(scale))>> ELSE <<>>)

Clamp(r) ==
  IF r < MinDistance THEN MinDistance
  ELSE IF r > MaxDistance THEN MaxDistance ELSE r

\* controls.update(): applies the pending user input that is enabled and
\* keeps the camera within [minDistance, maxDistance] of the target.
ControlsTarget(ctl, in) ==
  IF in.kind = "pan" /\ ctl.enablePan THEN in.v ELSE ctl.target

ControlsCamera(cz, ctl, in) ==
  LET t2 == ControlsTarget(ctl, in)
      moved == cz + (t2 - ctl.target)
      r == IF in.kind = "dolly" /\ ctl.enableZoom
             THEN in.v ELSE Distance(moved, t2)
  IN  IF moved >= t2 THEN t2 + Clamp(r) ELSE t2 - Clamp(r)

NewControls ==
  [enableRotate |-> TRUE, enableZoom |-> TRUE, enablePan |-> TRUE, target |-> 0]

SetInputEnabled(ctl, b) ==
  [ctl EXCEPT !.enableRotate = b, !.enableZoom = b, !.enablePan = b]

\* A tween that finishes at its first tick never uses its start value, so
\* the start value is kept only when the tween outlasts one tick.
StartValue(from, to, dur) == IF dur <= TickLen THEN to ELSE from

\* Variant: onComplete re-enables rotation only.
IntroOnCompleteRotateOnly(ctl) == [ctl EXCEPT !.enableRotate = TRUE]

\* The intro's onComplete re-enables rotate, zoom and pan.
IntroOnComplete(ctl) == SetInputEnabled(ctl, TRUE)

IntroTween(from) ==
  [kind |-> "intro", from |-> StartValue(from, DETAIL_END, INTRO_ZOOM),
   to |-> DETAIL_END, elapsed |-> 0, dur |-> INTRO_ZOOM]

JumpTarget(key) == IF key = "g" THEN SPHERE_START ELSE DETAIL_END

JumpTween(from, key) ==
  [kind |-> "jump",
   from |-> StartValue(from, JumpTarget(key), KeyJumpDuration),
   to |-> JumpTarget(key), elapsed |-> 0, dur |-> KeyJumpDuration]

IsIntro(tw) == tw.kind = "intro"

\* Variant: a new camera tween cancels every tween already running on the
\* camera position, the intro tween included.
AddJumpOverwrite(tws, tw) == <<tw>>

\* gsap.to does not cancel the tweens already running on the camera
\* position; within one tick they write in creation order.  Two key-jump
\* tweens have the same duration, so the earlier one finishes first and
\* every value it writes is overwritten in the same tick by the later one:
\* only the latest key-jump tween is kept.
AddJump(tws, tw) == Append(SelectSeq(tws, IsIntro), tw)

Advance(tw) == [tw EXCEPT !.elapsed = tw.elapsed + TickLen]

Finished(tw) == tw.elapsed >= tw.dur

TweenValue(tw) ==
  IF Finished(tw) THEN tw.to
  ELSE tw.from + (((tw.to - tw.from) * tw.elapsed) \div tw.dur)

IsScenarioPrefix(s) ==
  \E sc \in Scenarios : Len(s) <= Len(sc) /\ SubSeq(sc, 1, Len(s)) = s

NextScen(s, d, preScale) ==
  IF s # <<>> /\ IsScenarioPrefix(Append(s, d)) THEN Append(s, d)
  ELSE IF preScale = "sphere" /\ IsScenarioPrefix(<<d>>) THEN <<d>>
  ELSE <<>>

(***************************************************************************)
(* Scene objects: the stadium object, its loader and the sphere.           *)
(* Opacities and scale factors are in tenths.                              *)
(***************************************************************************)
Durations == {0, 5, 15}

\* The optional duration argument of the visibility methods.
DurationArgs ==
  {[given |-> FALSE, v |-> 0]} \cup {[given |-> TRUE, v |-> d] : d \in Durations}

Duration(arg, default) == IF arg.given THEN arg.v ELSE default

\* A mesh holds one material, an array of materials, or none; materials are
\* objects (named by a number) that several meshes may reference.
SingleMesh(m) == [array |-> FALSE, mats |-> <<m>>]
ArrayMesh(ms) == [array |-> TRUE, mats |-> ms]
BareMesh == [array |-> FALSE, mats |-> <<>>]

StadiumShapes ==
  { <<SingleMesh(1)>>,
    <<ArrayMesh(<<1, 2>>)>>,
    <<SingleMesh(1), ArrayMesh(<<2, 3>>)>>,
    <<SingleMesh(1), SingleMesh(1)>>,
    <<SingleMesh(1), BareMesh>> }

MaterialIds(meshes) ==
  UNION {{meshes[i].mats[j] : j \in 1..Len(meshes[i].mats)} :
           i \in 1..Len(meshes)}

SingleMaterialIds(meshes) ==
  UNION {{meshes[i].mats[j] : j \in 1..Len(meshes[i].mats)} :
           i \in {k \in 1..Len(meshes) : ~meshes[k].array}}

\* The material references in the order stadium.traverse visits them.
RECURSIVE MaterialSlots(_)
MaterialSlots(meshes) ==
  IF meshes = <<>> THEN <<>>
  ELSE Head(meshes).mats \o MaterialSlots(Tail(meshes))

NewMaterial == [transparent |-> FALSE, opacity |-> 10]

\* Largest bounding-box dimension of the delivered model.
MaxDims == {0, 5, 10, 200, 400, 700}

(***************************************************************************)
(* Numbers are binary floating-point values: the result of a division or   *)
(* of a multiplication is rounded to MantissaBits significant bits.  A     *)
(* value is written num / den with den a power of two.                     *)
(***************************************************************************)
RECURSIVE Pow2(_)
Pow2(n) == IF n = 0 THEN 1 ELSE 2 * Pow2(n - 1)

RoundDiv(a, b) == (2 * a + b) \div (2 * b)

Whole(n) == [num |-> n, den |-> 1]

\* Least k for which a * 2^k / b has MantissaBits significant bits.
RECURSIVE QuotientShift(_, _, _)
QuotientShift(a, b, k) ==
  IF a * Pow2(k) >= b * Pow2(MantissaBits - 1) THEN k
  ELSE QuotientShift(a, b, k + 1)

\* a / b for whole a < b.
FloatDiv(a, b) ==
  LET k == QuotientShift(a, b, 0)
  IN  [num |-> RoundDiv(a * Pow2(k), b), den |-> Pow2(k)]

\* Least number of low bits to drop from p to keep MantissaBits bits.
RECURSIVE DroppedBits(_, _)
DroppedBits(p, c) ==
  IF p < Pow2(MantissaBits + c) THEN c ELSE DroppedBits(p, c + 1)

\* x * f for a whole x and a value f with x * f >= 1.
FloatMul(x, f) ==
  LET p == x * f.num
      c == DroppedBits(p, 0)
  IN  IF f.den = 1 THEN Whole(p)
      ELSE [num |-> RoundDiv(p, Pow2(c)), den |-> f.den \div Pow2(c)]

\* Variant: a model of size exactly 10 is scaled up as well.
stadiumScaleInclusive(maxDim) ==
  IF maxDim <= 10 THEN Whole(10)
  ELSE IF maxDim > 200 THEN FloatDiv(200, maxDim)
  ELSE Whole(1)

\* maxDim < 10 ? 10 : maxDim > 200 ? 200/maxDim : 1
stadiumScale(maxDim) ==
  IF maxDim < 10 THEN Whole(10)
  ELSE IF maxDim > 200 THEN FloatDiv(200, maxDim)
  ELSE Whole(1)

\* if (maxDim > 0) stadium.scale.setScalar(scale)
normaliseScale(obj) ==
  IF obj.maxDim > 0
    THEN [obj EXCEPT !.scale = stadiumScale(obj.maxDim), !.scaleSet = TRUE]
    ELSE obj

\* gltf.scene as the loader delivers it.
LoadedScene(meshes, maxDim) ==
  [meshes |-> meshes,
   maxDim |-> maxDim,
   scale |-> Whole(1),
   scaleSet |-> FALSE,
   visible |-> TRUE,
   meshVisible |-> [i \in 1..Len(meshes) |-> TRUE],
   materials |-> [m \in MaterialIds(meshes) |-> NewMaterial]]

HiddenMaterial(mat) == [mat EXCEPT !.transparent = TRUE, !.opacity = 0]

\* Variant: the branch for arrays of materials is missing.
prepareStadiumMaterialsSingleOnly(obj) ==
  [obj EXCEPT
     !.visible = FALSE,
     !.meshVisible = [i \in DOMAIN obj.meshVisible |-> FALSE],
     !.materials = [m \in DOMAIN obj.materials |->
                      IF m \in SingleMaterialIds(obj.meshes)
                        THEN HiddenMaterial(obj.materials[m])
                        ELSE obj.materials[m]]]

prepareStadiumMaterials(obj) ==
  [obj EXCEPT
     !.visible = FALSE,
     !.meshVisible = [i \in DOMAIN obj.meshVisible |-> FALSE],
     !.materials = [m \in DOMAIN obj.materials |->
                      IF m \in MaterialIds(obj.meshes)
                        THEN HiddenMaterial(obj.materials[m])
                        ELSE obj.materials[m]]]

NoPromise == [state |-> "none", value |-> "none"]
NewPromise == [state |-> "pending", value |-> "none"]

\* resolve(v) / reject(v) of a promise: only a pending promise settles.
Settle(p, how, v) ==
  IF p.state = "pending" THEN [state |-> how, value |-> v] ELSE p

LoaderErrors == {"network error", "parse error"}

FadeRequest(m, duration) ==
  [target |-> <<"material", m>>, to |-> [opacity |-> 10],
   duration |-> duration]

\* Variant: a mesh with an array of materials gets a single request, for the
\* first material of the array.
StadiumFadeRequestsFirstOnly(obj, visible, duration, gsap) ==
  LET firsts == [i \in 1..Len(obj.meshes) |->
                   IF obj.meshes[i].mats = <<>> THEN <<>>
                   ELSE <<Head(obj.meshes[i].mats)>>]
      slots == MaterialSlots([i \in 1..Len(firsts) |->
                                [array |-> FALSE, mats |-> firsts[i]]])
  IN  IF visible /\ gsap
        THEN [k \in 1..Len(slots) |-> FadeRequest(slots[k], duration)]
        ELSE <<>>

\* The gsap.to calls of updateStadiumVisibility, in the order it makes them.
StadiumFadeRequests(obj, visible, duration, gsap) ==
  LET slots == MaterialSlots(obj.meshes)
  IN  IF visible /\ gsap
        THEN [k \in 1..Len(slots) |-> FadeRequest(slots[k], duration)]
        ELSE <<>>

\* The object as updateStadiumVisibility leaves it when it returns.
updateStadiumVisibility(obj, visible, duration, gsap) ==
  [obj EXCEPT
     !.visible = visible,
     !.meshVisible = [i \in DOMAIN obj.meshVisible |-> visible],
     !.materials = [m \in DOMAIN obj.materials |->
                      IF m \notin MaterialIds(obj.meshes) THEN obj.materials[m]
                      ELSE IF ~visible
                        THEN [obj.materials[m] EXCEPT !.opacity = 0]
                      ELSE IF gsap THEN obj.materials[m]
                      ELSE [obj.materials[m] EXCEPT !.opacity = 10]]]

NewSphere == [scale |-> 10, lineOpacity |-> 10]

SphereRequests(visible, duration) ==
  << [target |-> <<"sphere", 0>>,
      to |-> [opacity |-> IF visible THEN 10 ELSE 0],
      duration |-> duration],
     [target |-> <<"sphere.scale", 0>>,
      to |-> [x |-> IF visible THEN 10 ELSE 8,
              y |-> IF visible THEN 10 ELSE 8,
              z |-> IF visible THEN 10 ELSE 8],
      duration |-> duration] >>

\* Variant: gsap.to is called without checking that gsap is defined.
SphereUpdateVisibilityUnguarded(visible, duration, gsap) ==
  [requests |-> IF gsap THEN SphereRequests(visible, duration) ELSE <<>>,
   threw |-> ~gsap]

\* Variant: the scale request is made before the opacity request.
SphereUpdateVisibilityScaleFirst(visible, duration, gsap) ==
  [requests |-> IF gsap
                  THEN <<SphereRequests(visible, duration)[2],
                         SphereRequests(visible, duration)[1]>>
                  ELSE <<>>,
   threw |-> FALSE]

\* Sphere.updateVisibility: the requests it issues and whether it throws.
SphereUpdateVisibility(visible, duration, gsap) ==
  [requests |-> IF gsap THEN SphereRequests(visible, duration) ELSE <<>>,
   threw |-> FALSE]

NoCall ==
  [op |-> "none", visible |-> FALSE, duration |-> [given |-> FALSE, v |-> 0],
   error |-> "none"]

(***************************************************************************)
(* Performance utilities.  Pixel ratios are in tenths.                     *)
(***************************************************************************)
MobilePatterns ==
  {"Android", "webOS", "iPhone", "iPad", "iPod", "BlackBerry", "IEMobile",
   "Opera Mini"}

\* The user agent, reduced to the platform token it carries.
UserAgents == MobilePatterns \cup {"Windows NT 10.0", "Macintosh", "X11"}

CoreCounts == {2, 4, 5, 8}
DevicePixelRatios == {10, 15, 17, 20, 30}

Envs ==
  [userAgent : UserAgents, hardwareConcurrency : CoreCounts,
   devicePixelRatio : DevicePixelRatios]

DesktopEnv ==
  [userAgent |-> "Windows NT 10.0", hardwareConcurrency |-> 8,
   devicePixelRatio |-> 10]

AppConfigs ==
  [performanceMode : {"low", "high"}, isMobile : BOOLEAN, isLowEnd : BOOLEAN,
   effectsEnabled : BOOLEAN]

IsMobileAgent(ua) == ua \in MobilePatterns

\* Variant: four cores no longer count as low-end.
detectPerformanceBelowFour(e) ==
  LET isMobile == IsMobileAgent(e.userAgent)
      isLowEnd == e.hardwareConcurrency < 4 \/ isMobile
  IN  [performanceMode |-> IF isLowEnd THEN "low" ELSE "high",
       isMobile |-> isMobile,
       isLowEnd |-> isLowEnd,
       effectsEnabled |-> ~isLowEnd]

detectPerformance(e) ==
  LET isMobile == IsMobileAgent(e.userAgent)
      isLowEnd == e.hardwareConcurrency <= 4 \/ isMobile
  IN  [performanceMode |-> IF isLowEnd THEN "low" ELSE "high",
       isMobile |-> isMobile,
       isLowEnd |-> isLowEnd,
       effectsEnabled |-> ~isLowEnd]

Min(a, b) == IF a < b THEN a ELSE b

\* Variant: the low-end profile uses the high-end cap.
getPerformanceSettingsOneCap(cfg, e) ==
  IF cfg.isLowEnd
    THEN [pixelRatio |-> Min(e.devicePixelRatio, 20),
          antialias |-> FALSE, shadows |-> FALSE, postProcessing |-> FALSE,
          particleCount |-> [dust |-> 80, stars |-> 800, smallStars |-> 1000,
                             lightDots |-> 500]]
    ELSE [pixelRatio |-> Min(e.devicePixelRatio, 20),
          antialias |-> TRUE, shadows |-> TRUE, postProcessing |-> TRUE,
          particleCount |-> [dust |-> 200, stars |-> 2000, smallStars |-> 2500,
                             lightDots |-> 1200]]

\* Variant: the low-end profile keeps shadows on.
getPerformanceSettingsShadowsOn(cfg, e) ==
  IF cfg.isLowEnd
    THEN [pixelRatio |-> Min(e.devicePixelRatio, 15),
          antialias |-> FALSE, shadows |-> TRUE, postProcessing |-> FALSE,
          particleCount |-> [dust |-> 80, stars |-> 800, smallStars |-> 1000,
                             lightDots |-> 500]]
    ELSE [pixelRatio |-> Min(e.devicePixelRatio, 20),
          antialias |-> TRUE, shadows |-> TRUE, postProcessing |-> TRUE,
          particleCount |-> [dust |-> 200, stars |-> 2000, smallStars |-> 2500,
                             lightDots |-> 1200]]

getPerformanceSettings(cfg, e) ==
  IF cfg.isLowEnd
    THEN [pixelRatio |-> Min(e.devicePixelRatio, 15),
          antialias |-> FALSE, shadows |-> FALSE, postProcessing |-> FALSE,
          particleCount |-> [dust |-> 80, stars |-> 800, smallStars |-> 1000,
                             lightDots |-> 500]]
    ELSE [pixelRatio |-> Min(e.devicePixelRatio, 20),
          antialias |-> TRUE, shadows |-> TRUE, postProcessing |-> TRUE,
          particleCount |-> [dust |-> 200, stars |-> 2000, smallStars |-> 2500,
                             lightDots |-> 1200]]

(***************************************************************************)
(* Initial state: the StadiumApp object has been constructed.              *)
(***************************************************************************)
(* The floodlight rig.  Intensities are in tenths.                         *)
(***************************************************************************)
isAnimationPlaying == TRUE

\* The rig as setupLighting leaves it: every floodlight at low intensity.
NewFloodlights == [i \in 1..NumFloodlights |-> LowIntensity]

CommandedIntensity(isDetailMode) ==
  IF isDetailMode THEN DetailIntensity ELSE LowIntensity

\* The intensities as updateFloodlightIntensity leaves them when it returns.
updateFloodlightIntensity(lights, isDetailMode, gsap) ==
  IF gsap THEN lights
  ELSE [i \in DOMAIN lights |-> CommandedIntensity(isDetailMode)]

\* The tween its gsap.to calls start, one per floodlight with the same
\* target and duration.
LightTween(isDetailMode, duration) ==
  [to |-> CommandedIntensity(isDetailMode), elapsed |-> 0, dur |-> duration]

\* Variant: a command issued while an intensity tween is in flight is
\* dropped.
AddLightTweenKeepFirst(tws, tw) == IF tws = <<>> THEN <<tw>> ELSE tws

\* gsap.to does not cancel the tweens already running on a floodlight;
\* within one tick they write in creation order.  All intensity tweens have
\* the same duration, so an earlier one finishes first and every value it
\* writes is overwritten in the same tick by the later one: only the latest
\* is kept.
AddLightTween(tws, tw) == <<tw>>

\* The value an intensity tween writes on a tick, from the current value.
LightValue(tw, cur) ==
  IF Finished(tw) THEN tw.to
  ELSE cur + (((tw.to - cur) * TickLen) \div (tw.dur - tw.elapsed + TickLen))

\* The per-frame offsets: the sine term at its extremes and at zero, the
\* random term (below RandomAmplitude) at its lower end.
FlickerOffsets == {0 - FlickerAmplitude, 0, FlickerAmplitude}

\* animateFloodlights: each offset is added to the light's current
\* intensity and written back.
animateFloodlights(lights, offs) ==
  [i \in DOMAIN lights |-> lights[i] + offs[i]]

\* Intensities the model follows.
MinIntensity == DetailIntensity + LowIntensity - MaxIntensity

InRange(lights) ==
  \A i \in DOMAIN lights :
    lights[i] >= MinIntensity /\ lights[i] <= MaxIntensity

\* Before init() there is no lighting system; the main specification
\* leaves the rig out.
LightingIdle ==
  /\ floodlights = <<>>
  /\ lightTweens = <<>>

(***************************************************************************)
InitApp ==
  /\ initPc = "new"
  /\ inits = 0
  /\ loadOutcome = "none"
  /\ gsapPresent \in BOOLEAN
  /\ started = FALSE
  /\ rafPending = 0
  /\ listeners = 0
  /\ cameraZ = 0
  /\ controls = NewControls
  /\ currentZoomScale = "sphere"
  /\ sphereVisible = TRUE
  /\ stadiumDetailVisible = FALSE
  /\ hasSeenIntroSequence = FALSE
  /\ stadiumLoaded = FALSE
  /\ stadiumVisible = FALSE
  /\ tweens = <<>>
  /\ threw = FALSE
  /\ sphereApplied = TRUE
  /\ aspect = "landscape"
  /\ lastCalls = <<>>
  /\ lastBatch = FALSE
  /\ lastClass = "none"
  /\ scen = <<>>
  /\ scenBatches = 0
  /\ introRuns = 0
  /\ introCmds = 0
  /\ introCompletions = 0
  /\ lastCmd = 0
  /\ LightingIdle

\* The components taken on their own are not exercised.
ObjectsIdle ==
  /\ stadiumObj = LoadedScene(<<SingleMesh(1)>>, 100)
  /\ promise = NoPromise
  /\ progress = 0
  /\ sphereObj = NewSphere
  /\ requests = <<>>
  /\ callThrew = FALSE
  /\ lastCall = NoCall
  /\ fades = {}

PerformanceIdle ==
  /\ env = DesktopEnv
  /\ config = <<>>
  /\ settingsInput = <<>>
  /\ settings = <<>>

Init == InitApp /\ ObjectsIdle /\ PerformanceIdle

(***************************************************************************)
(* init(): the synchronous prefix up to the await of loadStadium.          *)
(***************************************************************************)
InitPrefixBody ==
  /\ inits' = inits + 1
  /\ initPc' = "loading"
  /\ loadOutcome' = "pending"
  /\ cameraZ' = SPHERE_START
  /\ controls' = NewControls
  /\ tweens' = <<>>
  /\ sphereApplied' = TRUE
  /\ UNCHANGED <<gsapPresent, started, rafPending, listeners, appVars,
                 hasSeenIntroSequence, stadiumLoaded, stadiumVisible, aspect,
                 threw, obsFrameVars, introObs, lastCmd,
                 objVars, perfVars, lightVars>>

InitPrefix ==
  /\ initPc = "new"
  /\ InitPrefixBody

\* A further call of the public init() after the first one has finished.
ReInit ==
  /\ initPc = "ready"
  /\ hasSeenIntroSequence
  /\ inits < MaxInits
  /\ InitPrefixBody

(***************************************************************************)
(* startIntroSequence, as the tail of init().                              *)
(***************************************************************************)
\* Variant: the intro tween is commanded without checking for the engine.
StartIntroUnguarded ==
  /\ controls' = SetInputEnabled(controls, FALSE)
  /\ introRuns' = introRuns + 1
  /\ tweens' = Append(tweens, IntroTween(cameraZ))
  /\ introCmds' = introCmds + 1
  /\ lastCmd' = DETAIL_END
  /\ UNCHANGED introCompletions

StartIntro ==
  /\ controls' = SetInputEnabled(controls, FALSE)
  /\ introRuns' = introRuns + 1
  /\ IF gsapPresent
       THEN /\ tweens' = Append(tweens, IntroTween(cameraZ))
            /\ introCmds' = introCmds + 1
            /\ lastCmd' = DETAIL_END
       ELSE UNCHANGED <<tweens, introCmds, lastCmd>>
  /\ UNCHANGED introCompletions

\* The load succeeded: the continuation of init() after the await.
LoadResolve ==
  /\ initPc = "loading"
  /\ started
  /\ initPc' = "ready"
  /\ loadOutcome' = "resolved"
  /\ stadiumLoaded' = TRUE
  /\ stadiumVisible' = FALSE
  /\ listeners' = listeners + 1
  /\ StartIntro
  /\ UNCHANGED <<inits, gsapPresent, started, rafPending, cameraZ, appVars,
                 hasSeenIntroSequence, aspect, threw, obsFrameVars,
                 sphereApplied,
                 objVars, perfVars, lightVars>>

\* Variant: the rejection is not caught and ends init().
LoadRejectUncaught ==
  /\ initPc = "loading"
  /\ started
  /\ initPc' = "failed"
  /\ loadOutcome' = "rejected"
  /\ UNCHANGED <<inits, gsapPresent, started, rafPending, listeners, cameraZ,
                 controls, appVars, hasSeenIntroSequence, stadiumLoaded,
                 stadiumVisible, tweens, aspect, threw, obsFrameVars,
                 sphereApplied, introObs,
                 lastCmd,
                 objVars, perfVars, lightVars>>

\* The load failed: the catch branch and the rest of init().
LoadReject ==
  /\ initPc = "loading"
  /\ started
  /\ initPc' = "ready"
  /\ loadOutcome' = "rejected"
  /\ listeners' = listeners + 1
  /\ StartIntro
  /\ UNCHANGED <<inits, gsapPresent, started, rafPending, cameraZ, appVars,
                 hasSeenIntroSequence, stadiumLoaded, stadiumVisible, aspect,
                 threw, obsFrameVars,
                 sphereApplied,
                 objVars, perfVars, lightVars>>

(***************************************************************************)
(* animate(): one frame.                                                   *)
(***************************************************************************)
FrameBody(in) ==
  LET distance == Distance(cameraZ, controls.target)
      newScale == classify(distance)
      changed == ScaleChanged(newScale, currentZoomScale)
      calls == IF changed
                 THEN ElementCalls(newScale, sphereVisible,
                                   stadiumDetailVisible, stadiumLoaded)
                 ELSE <<>>
      s2 == NextScen(scen, distance, currentZoomScale)
      scaleAfter == IF changed THEN newScale ELSE currentZoomScale
      lightCmd == changed /\ shouldShowDetail(newScale) # stadiumDetailVisible
      commanded == IF lightCmd
                     THEN updateFloodlightIntensity(floodlights,
                            shouldShowDetail(newScale), gsapPresent)
                     ELSE floodlights
  IN  /\ currentZoomScale' = scaleAfter
      /\ lightTweens' =
           IF lightCmd /\ gsapPresent /\ floodlights # <<>>
             THEN AddLightTween(lightTweens,
                    LightTween(shouldShowDetail(newScale),
                               FloodlightFadeDefault))
             ELSE lightTweens
      /\ IF isAnimationPlaying /\ scaleAfter = "detail"
           THEN \E offs \in [DOMAIN floodlights -> FlickerOffsets] :
                  /\ InRange(animateFloodlights(commanded, offs))
                  /\ floodlights' = animateFloodlights(commanded, offs)
           ELSE floodlights' = commanded
      /\ sphereVisible' =
           IF changed /\ shouldShowSphere(newScale) # sphereVisible
             THEN shouldShowSphere(newScale) ELSE sphereVisible
      /\ stadiumDetailVisible' =
           IF changed /\ shouldShowDetail(newScale) # stadiumDetailVisible
             THEN shouldShowDetail(newScale) ELSE stadiumDetailVisible
      /\ stadiumVisible' =
           IF changed /\ HasStadium(stadiumLoaded) /\ stadiumLoaded
             THEN shouldShowStadium(newScale) ELSE stadiumVisible
      /\ threw' = (threw \/ (changed /\ HasStadium(stadiumLoaded)
                                     /\ ~stadiumLoaded))
      /\ sphereApplied' =
           IF changed /\ shouldShowSphere(newScale) # sphereVisible
                /\ SphereUpdateVisibility(shouldShowSphere(newScale),
                      SphereFadeDefault, gsapPresent).requests # <<>>
             THEN shouldShowSphere(newScale) ELSE sphereApplied
      /\ cameraZ' = ControlsCamera(cameraZ, controls, in)
      /\ controls' = [controls EXCEPT !.target = ControlsTarget(controls, in)]
      /\ lastCalls' = calls
      /\ lastBatch' = changed
      /\ lastClass' = newScale
      /\ scen' = s2
      /\ scenBatches' =
           IF s2 = <<>> THEN 0
           ELSE IF Len(s2) = 1 THEN (IF changed THEN 1 ELSE 0)
           ELSE scenBatches + (IF changed THEN 1 ELSE 0)
      /\ UNCHANGED <<initPc, inits, loadOutcome, gsapPresent, listeners,
                     hasSeenIntroSequence, stadiumLoaded, tweens, aspect,
                     introObs, lastCmd,
                     objVars, perfVars>>

\* The objects the synchronous part of init() creates before it awaits the
\* stadium load.
PrefixObjects ==
  {"scene", "camera", "renderer", "controls", "sphere", "lighting"}

\* The objects that exist at a given position of init().
Created(pc, loaded) ==
  (IF pc = "new" THEN {} ELSE PrefixObjects)
    \cup (IF loaded THEN {"stadium"} ELSE {})

\* The objects a frame dereferences: camera and controls for the distance
\* and the controls update, renderer and scene for the render, and the
\* receiver of every call it issues.
FrameDereferences(calls) ==
  {"camera", "controls", "renderer", "scene"}
    \cup {calls[i].obj : i \in 1..Len(calls)}

\* Variant: the entry point calls start() before init().
StartBeforeInit ==
  /\ ~started
  /\ started' = TRUE
  /\ rafPending' = rafPending + 1
  /\ \E in \in UserInputs : FrameBody(in)

\* start(): the first call of animate(), made right after init() returned
\* its promise.
Start ==
  /\ initPc # "new"
  /\ ~started
  /\ started' = TRUE
  /\ rafPending' = rafPending + 1
  /\ \E in \in UserInputs : FrameBody(in)

\* Variant: the frame callback does not schedule a successor.
FrameNotRescheduling ==
  /\ rafPending > 0
  /\ started' = started
  /\ rafPending' = rafPending - 1
  /\ \E in \in UserInputs : FrameBody(in)

\* A scheduled frame callback runs: it schedules its successor first.
Frame ==
  /\ rafPending > 0
  /\ started' = started
  /\ rafPending' = (rafPending - 1) + 1
  /\ \E in \in UserInputs : FrameBody(in)

(***************************************************************************)
(* onKeyDown                                                               *)
(***************************************************************************)
KeyDown ==
  /\ listeners > 0
  /\ \E key \in Keys :
       /\ IF initPc # "new" /\ gsapPresent /\ key \in {"g", "d"}
            THEN /\ tweens' = AddJump(tweens, JumpTween(cameraZ, key))
                 /\ lastCmd' = JumpTarget(key)
            ELSE UNCHANGED <<tweens, lastCmd>>
  /\ UNCHANGED <<initPc, inits, loadOutcome, gsapPresent, started, rafPending,
                 listeners,
                 cameraZ, controls, appVars, hasSeenIntroSequence,
                 stadiumLoaded, stadiumVisible, aspect, threw, obsFrameVars,
                 sphereApplied,
                 introObs,
                 objVars, perfVars, lightVars>>

(***************************************************************************)
(* onWindowResize: touches only the projection and the render size.        *)
(***************************************************************************)
\* Variant: the resize handler resets the tracked scale.
ResizeResettingScale ==
  /\ listeners > 0
  /\ initPc # "new"
  /\ \E a \in Aspects : a # aspect /\ aspect' = a
  /\ currentZoomScale' = "sphere"
  /\ UNCHANGED <<initPc, inits, loadOutcome, gsapPresent, started, rafPending,
                 listeners, cameraZ, controls, sphereVisible,
                 stadiumDetailVisible, hasSeenIntroSequence,
                 stadiumLoaded, stadiumVisible, tweens, threw, obsFrameVars,
                 sphereApplied,
                 introObs, lastCmd, objVars, perfVars, lightVars>>

Resize ==
  /\ listeners > 0
  /\ initPc # "new"
  /\ \E a \in Aspects : a # aspect /\ aspect' = a
  /\ UNCHANGED <<initPc, inits, loadOutcome, gsapPresent, started, rafPending,
                 listeners,
                 cameraZ, controls, appVars, hasSeenIntroSequence,
                 stadiumLoaded, stadiumVisible, tweens, threw, obsFrameVars,
                 sphereApplied,
                 introObs, lastCmd,
                 objVars, perfVars, lightVars>>

(***************************************************************************)
(* One tick of the animation engine: every tween in flight advances and    *)
(* writes its value, in creation order; finished tweens run onComplete.    *)
(***************************************************************************)
GsapTick ==
  /\ gsapPresent
  /\ tweens # <<>> \/ lightTweens # <<>>
  /\ LET adv == [i \in 1..Len(tweens) |-> Advance(tweens[i])]
         ladv == [i \in 1..Len(lightTweens) |-> Advance(lightTweens[i])]
         introDone == \E i \in 1..Len(adv) :
                         adv[i].kind = "intro" /\ Finished(adv[i])
         nDone == Cardinality({i \in 1..Len(adv) :
                         adv[i].kind = "intro" /\ Finished(adv[i])})
         NotFinished(tw) == ~Finished(tw)
     IN  /\ cameraZ' = IF adv = <<>> THEN cameraZ
                        ELSE TweenValue(adv[Len(adv)])
         /\ tweens' = SelectSeq(adv, NotFinished)
         /\ floodlights' =
              IF ladv = <<>> THEN floodlights
              ELSE [i \in DOMAIN floodlights |->
                      LightValue(ladv[Len(ladv)], floodlights[i])]
         /\ lightTweens' = SelectSeq(ladv, NotFinished)
         /\ controls' = IF introDone THEN IntroOnComplete(controls)
                        ELSE controls
         /\ hasSeenIntroSequence' = (hasSeenIntroSequence \/ introDone)
         /\ introCompletions' = introCompletions + nDone
  /\ UNCHANGED <<initPc, inits, loadOutcome, gsapPresent, started, rafPending,
                 listeners,
                 appVars, stadiumLoaded, stadiumVisible, aspect, threw,
                 obsFrameVars,
                 sphereApplied, introRuns, introCmds, lastCmd,
                 objVars, perfVars>>

(***************************************************************************)
(* Specifications                                                          *)
(***************************************************************************)
\* The program as the entry point drives it: init() once, then start().
Next ==
  \/ InitPrefix
  \/ LoadResolve
  \/ LoadReject
  \/ Start
  \/ Frame
  \/ KeyDown
  \/ Resize
  \/ GsapTick

Spec == Init /\ [][Next]_vars

\* The same program when the public init() may be called again.
NextReinit ==
  \/ Next
  \/ ReInit

SpecReinit == Init /\ [][NextReinit]_vars

\* The program with a running animation engine: while a tween is in flight
\* the engine's ticker keeps ticking, so a tick that stays possible is
\* eventually taken.
SpecLive == Init /\ [][Next]_vars /\ WF_vars(GsapTick)

(***************************************************************************)
(* The frame loop with the camera anywhere on its way: init() is at the    *)
(* await, and a camera animation or the user has left the camera at any    *)
(* of the probed distances from the orbit target.                          *)
(***************************************************************************)
ProbeDistances ==
  (0..3) \cup (498..502) \cup (2498..2502) \cup {MaxDistance - 1, MaxDistance}

InitClassifier ==
  /\ initPc = "loading"
  /\ inits = 1
  /\ loadOutcome = "pending"
  /\ gsapPresent \in BOOLEAN
  /\ started = FALSE
  /\ rafPending = 0
  /\ listeners = 0
  /\ cameraZ \in ProbeDistances
  /\ controls = NewControls
  /\ currentZoomScale \in ZoomScales
  /\ sphereVisible = shouldShowSphere(currentZoomScale)
  /\ stadiumDetailVisible = shouldShowDetail(currentZoomScale)
  /\ hasSeenIntroSequence = FALSE
  /\ stadiumLoaded = FALSE
  /\ stadiumVisible = FALSE
  /\ tweens = <<>>
  /\ threw = FALSE
  /\ sphereApplied = (IF gsapPresent THEN sphereVisible ELSE TRUE)
  /\ aspect = "landscape"
  /\ lastCalls = <<>>
  /\ lastBatch = FALSE
  /\ lastClass = "none"
  /\ scen = <<>>
  /\ scenBatches = 0
  /\ introRuns = 0
  /\ introCmds = 0
  /\ introCompletions = 0
  /\ lastCmd = 0
  /\ ObjectsIdle
  /\ PerformanceIdle
  /\ LightingIdle

NextClassifier ==
  \/ Start
  \/ Frame

SpecClassifier == InitClassifier /\ [][NextClassifier]_vars

(***************************************************************************)
(* The frame loop with the floodlight rig: init() is at the await, the     *)
(* lighting system has set up its floodlights, and the user moves the      *)
(* camera through the scales.                                              *)
(***************************************************************************)
InitLighting ==
  /\ initPc = "loading"
  /\ inits = 1
  /\ loadOutcome = "pending"
  /\ gsapPresent \in BOOLEAN
  /\ started = FALSE
  /\ rafPending = 0
  /\ listeners = 0
  /\ cameraZ = SPHERE_START
  /\ controls = NewControls
  /\ currentZoomScale = "sphere"
  /\ sphereVisible = TRUE
  /\ stadiumDetailVisible = FALSE
  /\ hasSeenIntroSequence = FALSE
  /\ stadiumLoaded = FALSE
  /\ stadiumVisible = FALSE
  /\ tweens = <<>>
  /\ threw = FALSE
  /\ sphereApplied = TRUE
  /\ aspect = "landscape"
  /\ lastCalls = <<>>
  /\ lastBatch = FALSE
  /\ lastClass = "none"
  /\ scen = <<>>
  /\ scenBatches = 0
  /\ introRuns = 0
  /\ introCmds = 0
  /\ introCompletions = 0
  /\ lastCmd = 0
  /\ ObjectsIdle
  /\ PerformanceIdle
  /\ floodlights = NewFloodlights
  /\ lightTweens = <<>>

NextLighting ==
  \/ Start
  \/ Frame
  \/ GsapTick

SpecLighting == InitLighting /\ [][NextLighting]_vars

\* With a running animation engine: its ticker keeps ticking while a tween
\* is in flight.
SpecLightingLive == InitLighting /\ [][NextLighting]_vars /\ WF_vars(GsapTick)

(***************************************************************************)
(* The scene objects on their own: a caller drives the loader and the      *)
(* visibility methods directly.                                            *)
(***************************************************************************)
mainVars == <<initPc, inits, loadOutcome, gsapPresent, started, rafPending,
              listeners, cameraZ, controls, appVars, hasSeenIntroSequence,
              stadiumLoaded, stadiumVisible, tweens, aspect, threw,
              obsFrameVars,
                 sphereApplied, introObs, lastCmd, lightVars>>

InitObjects ==
  /\ InitApp
  /\ stadiumObj \in {LoadedScene(sh, d) : sh \in StadiumShapes, d \in MaxDims}
  /\ promise = NoPromise
  /\ progress = 0
  /\ sphereObj = NewSphere
  /\ requests = <<>>
  /\ callThrew = FALSE
  /\ lastCall = NoCall
  /\ fades = {}
  /\ PerformanceIdle

\* loadStadium(): creates the promise and hands the callbacks to the loader.
LoadStadiumCall ==
  /\ promise.state = "none"
  /\ promise' = NewPromise
  /\ requests' = <<>>
  /\ callThrew' = FALSE
  /\ lastCall' = [NoCall EXCEPT !.op = "loadStadium"]
  /\ UNCHANGED <<mainVars, stadiumObj, progress, sphereObj, fades, perfVars>>

\* The loader's progress callback: it only logs.
LoaderOnProgress ==
  /\ promise.state = "pending"
  /\ progress < MaxProgress
  /\ progress' = progress + 1
  /\ requests' = <<>>
  /\ callThrew' = FALSE
  /\ lastCall' = [NoCall EXCEPT !.op = "onProgress"]
  /\ UNCHANGED <<mainVars, stadiumObj, promise, sphereObj, fades, perfVars>>

\* The loader's success callback, given gltf.scene (stadiumObj).
LoaderOnLoad ==
  /\ promise.state = "pending"
  /\ stadiumObj' = prepareStadiumMaterials(normaliseScale(stadiumObj))
  /\ promise' = Settle(promise, "resolved", "gltf.scene")
  /\ requests' = <<>>
  /\ callThrew' = FALSE
  /\ lastCall' = [NoCall EXCEPT !.op = "onLoad"]
  /\ UNCHANGED <<mainVars, progress, sphereObj, fades, perfVars>>

\* The loader's error callback.
LoaderOnError ==
  /\ promise.state = "pending"
  /\ \E e \in LoaderErrors :
       /\ promise' = Settle(promise, "rejected", e)
       /\ lastCall' = [NoCall EXCEPT !.op = "onError", !.error = e]
  /\ requests' = <<>>
  /\ callThrew' = FALSE
  /\ UNCHANGED <<mainVars, stadiumObj, progress, sphereObj, fades, perfVars>>

\* The materials addressed by the requests that stay in flight after the
\* call, and by those the engine renders at once (duration 0).
InFlight(reqs) ==
  {reqs[k].target[2] : k \in {j \in 1..Len(reqs) : reqs[j].duration > 0}}

RenderedAtOnce(reqs) ==
  {reqs[k].target[2] : k \in {j \in 1..Len(reqs) : reqs[j].duration = 0}}

\* The opacity tweens of the materials ms have written their end value.
FadedIn(obj, ms) ==
  [obj EXCEPT
     !.materials = [m \in DOMAIN obj.materials |->
                      IF m \in ms
                        THEN [obj.materials[m] EXCEPT !.opacity = 10]
                        ELSE obj.materials[m]]]

UpdateStadiumVisibility ==
  /\ \E visible \in BOOLEAN, d \in DurationArgs :
       LET duration == Duration(d, StadiumFadeDefault)
           reqs == StadiumFadeRequests(stadiumObj, visible, duration,
                                       gsapPresent)
       IN  /\ stadiumObj' =
                FadedIn(updateStadiumVisibility(stadiumObj, visible,
                                                duration, gsapPresent),
                        RenderedAtOnce(reqs))
           /\ requests' = reqs
           /\ fades' = fades \cup InFlight(reqs)
           /\ lastCall' = [op |-> "updateStadiumVisibility",
                           visible |-> visible, duration |-> d,
                           error |-> "none"]
  /\ callThrew' = FALSE
  /\ UNCHANGED <<mainVars, promise, progress, sphereObj, perfVars>>

\* One tick of the animation engine for the stadium materials: every
\* opacity tween in flight (none lasts longer than a tick) completes.
FadeTick ==
  /\ fades # {}
  /\ stadiumObj' = FadedIn(stadiumObj, fades)
  /\ fades' = {}
  /\ requests' = <<>>
  /\ callThrew' = FALSE
  /\ lastCall' = [NoCall EXCEPT !.op = "tick"]
  /\ UNCHANGED <<mainVars, promise, progress, sphereObj, perfVars>>

SphereVisibility ==
  /\ \E visible \in BOOLEAN, d \in DurationArgs :
       LET duration == Duration(d, SphereFadeDefault)
           r == SphereUpdateVisibility(visible, duration, gsapPresent)
       IN  /\ requests' = r.requests
           /\ callThrew' = r.threw
           /\ lastCall' = [op |-> "Sphere.updateVisibility",
                           visible |-> visible, duration |-> d,
                           error |-> "none"]
  /\ UNCHANGED <<mainVars, stadiumObj, promise, progress, sphereObj, fades,
                 perfVars>>

NextObjects ==
  \/ LoadStadiumCall
  \/ LoaderOnProgress
  \/ LoaderOnLoad
  \/ LoaderOnError
  \/ UpdateStadiumVisibility
  \/ FadeTick
  \/ SphereVisibility

SpecObjects == InitObjects /\ [][NextObjects]_vars

(***************************************************************************)
(* The performance utilities on their own, for every environment.          *)
(***************************************************************************)
InitPerformance ==
  /\ InitApp
  /\ ObjectsIdle
  /\ env \in Envs
  /\ config = <<>>
  /\ settingsInput = <<>>
  /\ settings = <<>>

DetectPerformance ==
  /\ config' = <<detectPerformance(env)>>
  /\ UNCHANGED <<mainVars, objVars, env, settingsInput, settings>>

GetPerformanceSettings ==
  /\ \E cfg \in AppConfigs :
       /\ settingsInput' = <<cfg>>
       /\ settings' = <<getPerformanceSettings(cfg, env)>>
  /\ UNCHANGED <<mainVars, objVars, env, config>>

\* The field initialisers of a new StadiumApp: the detected profile is
\* turned into the settings once; no method assigns either field again.
NewStadiumApp ==
  /\ config' = <<detectPerformance(env)>>
  /\ settingsInput' = <<detectPerformance(env)>>
  /\ settings' = <<getPerformanceSettings(detectPerformance(env), env)>>
  /\ UNCHANGED <<mainVars, objVars, env>>

NextPerformance ==
  \/ DetectPerformance
  \/ GetPerformanceSettings
  \/ NewStadiumApp

SpecPerformance == InitPerformance /\ [][NextPerformance]_vars

(***************************************************************************)
(* Properties                                                              *)
(***************************************************************************)
\* A step of animate().  Every other operation changes initPc, inits,
\* tweens or aspect (or nothing at all), and a frame changes none of them,
\* so among the steps that change the state these are the frames.
FrameStep == UNCHANGED <<initPc, inits, loadOutcome, tweens, aspect>>

\* The characterisation above is exact: such a step is a step of animate().
FrameStepIsAnimate == [][FrameStep => (Start \/ Frame)]_vars

FrameDistance == Distance(cameraZ, controls.target)

HasCall(calls, o) == \E i \in 1..Len(calls) : calls[i].obj = o

CallSet(calls) == {calls[i] : i \in 1..Len(calls)}

BoundarySweep == <<2500, 500, 1, 0>>
RepeatSweep == <<3000, 3000, 1800, 1800, 300>>
EndToEnd == <<2600, 2000, 100>>
FullSweep == <<3000, 1800, 300, 1800, 3000>>

\* C1: every frame classifies the distance it reads, whatever it is (the
\* gap below 1 included), as exactly one of sphere, stadium, detail, and a
\* distance equal to a band's minimum belongs to that band: 2500 is sphere,
\* 500 is stadium, 1 is detail.
C1_ClassificationTotal ==
  [][FrameStep =>
       /\ lastClass' \in ZoomScales
       /\ currentZoomScale' = lastClass'
       /\ (FrameDistance = 2500 => currentZoomScale' = "sphere")
       /\ (FrameDistance = 500 => currentZoomScale' = "stadium")
       /\ (FrameDistance = 1 => currentZoomScale' = "detail")
       /\ (FrameDistance < 1 => currentZoomScale' \in ZoomScales)]_vars

\* Frames have read 2500, 500, 1 and a distance in the gap, in this order.
C1_Witness ==
  /\ scen = BoundarySweep
  /\ currentZoomScale = "detail"

\* C2: a frame whose distance classifies to the scale of the distance the
\* previous frame processed issues no call to the sphere, the stadium or
\* the lighting and leaves currentZoomScale, sphereVisible and
\* stadiumDetailVisible unchanged.
C2_TickIdempotent ==
  [][(FrameStep /\ lastClass # "none" /\ classify(FrameDistance) = lastClass)
       => (lastCalls' = <<>> /\ UNCHANGED appVars)]_vars

\* A frame repeated the distance 1800 after the change to stadium, with the
\* stadium loaded, and issued nothing.
C2_Witness ==
  /\ scen = <<3000, 3000, 1800, 1800>>
  /\ stadiumLoaded
  /\ lastCalls = <<>>
  /\ ~lastBatch

ClassBefore == IF lastClass = "none" THEN "sphere" ELSE lastClass

\* Number of adjacent positions of s, after the initial scale sphere, at
\* which the classification differs from the previous one.
RECURSIVE ClassChanges(_, _)
ClassChanges(prev, s) ==
  IF s = <<>> THEN 0
  ELSE (IF classify(Head(s)) # prev THEN 1 ELSE 0)
         + ClassChanges(classify(Head(s)), Tail(s))

\* C3: a frame calls updateElementVisibility exactly when the classification
\* of its distance differs from that of the previous frame (sphere before the
\* first frame), so the batches of a sequence of frames number its adjacent
\* classification changes; 3000, 3000, 1800, 1800, 300 yields two batches.
C3_BatchesCountChanges ==
  [][FrameStep =>
       /\ lastBatch' <=> (classify(FrameDistance) # ClassBefore)
       /\ (scen' # <<>> => scenBatches' = ClassChanges("sphere", scen'))
       /\ (scen' = RepeatSweep => scenBatches' = 2)]_vars

C3_Witness ==
  /\ scen = RepeatSweep
  /\ scenBatches = 2
  /\ currentZoomScale = "detail"

\* C4: on a scale change an object is called exactly when its desired
\* visibility under the new scale differs from the visibility it was last
\* commanded: the sphere and the stadium on a change of "scale is sphere",
\* the lighting on a change of "scale is detail"; so neither the stadium nor
\* the sphere is called on stadium<->detail changes and the lighting is not
\* called on sphere<->stadium changes.
C4_CallsOnlyOnDifference ==
  [][(FrameStep /\ lastBatch') =>
       /\ HasCall(lastCalls', "sphere")
            <=> ((currentZoomScale' = "sphere") # sphereVisible)
       /\ HasCall(lastCalls', "stadium")
            <=> (stadiumLoaded
                   /\ ((currentZoomScale' # "sphere") # stadiumVisible))
       /\ HasCall(lastCalls', "lighting")
            <=> ((currentZoomScale' = "detail") # stadiumDetailVisible)]_vars

\* C5: between frames the tracked visibility is a function of the current
\* scale alone: sphereVisible iff the scale is sphere, stadiumDetailVisible
\* iff the scale is detail.
C5_VisibilityFollowsScale ==
  /\ sphereVisible = (currentZoomScale = "sphere")
  /\ stadiumDetailVisible = (currentZoomScale = "detail")

\* A frame jumped from sphere straight to detail, skipping the stadium band.
C5_Witness ==
  /\ lastBatch
  /\ currentZoomScale = "detail"
  /\ HasCall(lastCalls, "sphere")
  /\ HasCall(lastCalls, "lighting")

\* C6: whenever the stadium model is in the scene, its visible flag equals
\* (currentZoomScale # "sphere"), whatever the order of load and frames.
C6_StadiumFollowsScale ==
  stadiumLoaded => (stadiumVisible <=> (currentZoomScale # "sphere"))

SphereHide == [obj |-> "sphere", on |-> FALSE, duration |-> 8]
StadiumShow == [obj |-> "stadium", on |-> TRUE, duration |-> 8]
LightingHigh == [obj |-> "lighting", on |-> TRUE, duration |-> 8]

\* C7 as stated: from scale sphere, the frame at 2600 issues nothing; the
\* frame at 2000 changes the scale to stadium and issues exactly a sphere
\* hide and a stadium show of 0.8 s; the frame at 100 changes the scale to
\* detail, leaves the stadium shown and the sphere hidden and switches the
\* lighting to high detail over 0.8 s.
C7_EndToEndAsStated ==
  [][FrameStep =>
       /\ (scen' = <<2600>> =>
             (lastCalls' = <<>> /\ currentZoomScale' = "sphere"))
       /\ (scen' = <<2600, 2000>> =>
             /\ currentZoomScale' = "stadium"
             /\ CallSet(lastCalls') = {SphereHide, StadiumShow})
       /\ (scen' = EndToEnd =>
             /\ currentZoomScale' = "detail"
             /\ stadiumVisible'
             /\ ~sphereVisible'
             /\ ~HasCall(lastCalls', "sphere")
             /\ LightingHigh \in CallSet(lastCalls'))]_vars

\* C7 (amended): as C7, with the stadium calls and the stadium's state
\* conditional on the stadium object being present at that frame: the frame
\* at 2000 issues exactly a sphere hide and, if the stadium is present, a
\* stadium show; after the frame at 100 the stadium, if present, is shown.
C7_EndToEnd ==
  [][FrameStep =>
       /\ (scen' = <<2600>> =>
             (lastCalls' = <<>> /\ currentZoomScale' = "sphere"))
       /\ (scen' = <<2600, 2000>> =>
             /\ currentZoomScale' = "stadium"
             /\ CallSet(lastCalls') =
                  {SphereHide}
                    \cup (IF stadiumLoaded THEN {StadiumShow} ELSE {}))
       /\ (scen' = EndToEnd =>
             /\ currentZoomScale' = "detail"
             /\ (stadiumLoaded => stadiumVisible')
             /\ ~sphereVisible'
             /\ ~HasCall(lastCalls', "sphere")
             /\ LightingHigh \in CallSet(lastCalls'))]_vars

C7_Witness ==
  /\ scen = EndToEnd
  /\ stadiumLoaded
  /\ stadiumVisible
  /\ LightingHigh \in CallSet(lastCalls)

NotStadiumCall(c) == c.obj # "stadium"

\* The sphere and lighting calls a change from scale a to scale b asks for.
SphereAndLightingCalls(a, b) ==
  (IF (a = "sphere") # (b = "sphere")
     THEN <<[obj |-> "sphere", on |-> (b = "sphere"), duration |-> 8]>>
     ELSE <<>>)
  \o (IF (a = "detail") # (b = "detail")
        THEN <<[obj |-> "lighting", on |-> (b = "detail"), duration |-> 8]>>
        ELSE <<>>)

\* C8: no frame throws; with the stadium absent a frame issues no stadium
\* call, and its sphere and lighting calls are those the scale change asks
\* for, the same as with the stadium present.
C8_AbsentStadiumTolerated ==
  [][FrameStep =>
       /\ ~threw'
       /\ (~stadiumLoaded => ~HasCall(lastCalls', "stadium"))
       /\ SelectSeq(lastCalls', NotStadiumCall)
            = SphereAndLightingCalls(currentZoomScale, currentZoomScale')]_vars

\* The sweep 3000, 1800, 300, 1800, 3000 has run without a stadium.
C8_Witness ==
  /\ scen = FullSweep
  /\ ~stadiumLoaded
  /\ ~threw
  /\ lastCalls = <<[obj |-> "sphere", on |-> TRUE, duration |-> 8]>>

AllInput(ctl, b) ==
  ctl.enableRotate = b /\ ctl.enableZoom = b /\ ctl.enablePan = b

InputFlags(ctl) == <<ctl.enableRotate, ctl.enableZoom, ctl.enablePan>>

\* C9: once hasSeenIntroSequence is true, a further invocation of the intro
\* sequence issues no camera animation command and leaves the controls as
\* they are.
C9_IntroOneShot ==
  [][(hasSeenIntroSequence /\ introRuns' # introRuns) =>
       (introCmds' = introCmds /\ controls' = controls)]_vars

IntroRunning == introRuns > introCompletions

\* C10: while the intro has started and its completion callback has not
\* run, rotate, zoom and pan are disabled and hasSeenIntroSequence is false;
\* the completion callback enables all three and sets the flag in one step;
\* no other operation changes the enable flags or the flag.
C10_IntroProtocol ==
  [][/\ (IntroRunning' =>
           (AllInput(controls', FALSE) /\ ~hasSeenIntroSequence'))
     /\ (introCompletions' # introCompletions =>
           (AllInput(controls', TRUE) /\ hasSeenIntroSequence'))
     /\ ((InputFlags(controls') # InputFlags(controls)
            \/ hasSeenIntroSequence' # hasSeenIntroSequence)
           => (introRuns' # introRuns
                 \/ introCompletions' # introCompletions))]_vars

\* The intro ran to completion although a key jump was issued meanwhile.
C10_Witness ==
  /\ introCompletions = 1
  /\ hasSeenIntroSequence
  /\ AllInput(controls, TRUE)
  /\ cameraZ = SPHERE_START

(***************************************************************************)
(* C11: with the animation engine present and ticking, once the intro      *)
(* sequence has been started rotate, zoom and pan are eventually enabled   *)
(* again and hasSeenIntroSequence eventually becomes true, whatever        *)
(* key-jump commands are issued while the intro tween is in flight.        *)
(***************************************************************************)
C11_IntroLiveness ==
  (gsapPresent /\ IntroRunning)
    ~> (hasSeenIntroSequence /\ AllInput(controls, TRUE))

\* The intro has completed although a 'g' jump was commanded while it was
\* in flight: the camera rests at the intro's end point, which a 'g' jump
\* commanded after the intro would have left.
C11_Witness ==
  /\ introCompletions = 1
  /\ hasSeenIntroSequence
  /\ AllInput(controls, TRUE)
  /\ tweens = <<>>
  /\ lastCmd = SPHERE_START
  /\ cameraZ = DETAIL_END

(***************************************************************************)
(* C12: when the animation engine is missing as the intro sequence runs,   *)
(* the intro issues no camera animation command and does not move the      *)
(* camera, and in every later state rotate, zoom and pan are disabled and  *)
(* hasSeenIntroSequence is false.                                          *)
(***************************************************************************)
C12_IntroWithoutEngine ==
  [][(~gsapPresent /\ introRuns' > 0) =>
       /\ introCmds' = 0
       /\ tweens' = <<>>
       /\ lastCmd' = 0
       /\ (introRuns' # introRuns => cameraZ' = cameraZ)
       /\ AllInput(controls', FALSE)
       /\ ~hasSeenIntroSequence']_vars

\* The intro ran without the engine, and frames and a resize followed.
C12_Witness ==
  /\ ~gsapPresent
  /\ introRuns = 1
  /\ initPc = "ready"
  /\ aspect = "portrait"
  /\ lastClass = "sphere"
  /\ cameraZ = SPHERE_START
  /\ AllInput(controls, FALSE)
  /\ ~hasSeenIntroSequence

(***************************************************************************)
(* C13: the most recent camera animation command wins: at the step where   *)
(* the last animation in flight finishes, the camera is at the target of   *)
(* the command issued most recently (intro or key jump).                   *)
(***************************************************************************)
C13_MostRecentCommandWins ==
  [][(tweens # <<>> /\ tweens' = <<>>) => cameraZ' = lastCmd]_vars

(***************************************************************************)
(* C14: a rejected stadium load is not fatal: init() still registers the   *)
(* listeners, starts the intro sequence and completes, the stadium stays   *)
(* absent in every later state, a frame stays scheduled and no frame       *)
(* fails.                                                                  *)
(***************************************************************************)
C14_FailedLoadNotFatal ==
  [][loadOutcome' = "rejected" =>
       /\ initPc' = "ready"
       /\ listeners' = 1
       /\ introRuns' = 1
       /\ ~stadiumLoaded'
       /\ rafPending' > 0
       /\ ~threw']_vars

\* After a rejected load the intro has completed and frames have taken the
\* scale to detail with the stadium absent.
C14_Witness ==
  /\ loadOutcome = "rejected"
  /\ initPc = "ready"
  /\ listeners = 1
  /\ hasSeenIntroSequence
  /\ currentZoomScale = "detail"
  /\ ~stadiumLoaded
  /\ rafPending > 0
  /\ ~threw

(***************************************************************************)
(* C15: loadStadium settles exactly once: the loader's success callback    *)
(* resolves the pending promise with the loaded scene object itself, left  *)
(* hidden (visible false, every mesh material transparent with opacity     *)
(* 0); its error callback rejects the promise with the error it was given; *)
(* progress callbacks leave the promise pending; a settled promise never   *)
(* changes again.                                                          *)
(***************************************************************************)
PreparedHidden(obj) ==
  /\ ~obj.visible
  /\ \A i \in 1..Len(obj.meshes) : \A j \in 1..Len(obj.meshes[i].mats) :
       /\ obj.materials[obj.meshes[i].mats[j]].transparent
       /\ obj.materials[obj.meshes[i].mats[j]].opacity = 0

C15_LoadSettlesOnce ==
  [][/\ (promise.state = "pending" /\ lastCall'.op = "onLoad") =>
          /\ promise' = [state |-> "resolved", value |-> "gltf.scene"]
          /\ PreparedHidden(stadiumObj')
     /\ (promise.state = "pending" /\ lastCall'.op = "onError") =>
          promise' = [state |-> "rejected", value |-> lastCall'.error]
     /\ (promise.state = "pending" /\ lastCall'.op = "onProgress") =>
          promise' = promise
     /\ promise.state \in {"resolved", "rejected"} => promise' = promise]_vars

\* A scene with an array of materials was delivered after progress reports,
\* and visibility calls have followed the resolution.
C15_Witness ==
  /\ promise = [state |-> "resolved", value |-> "gltf.scene"]
  /\ progress = MaxProgress
  /\ \E i \in 1..Len(stadiumObj.meshes) : stadiumObj.meshes[i].array
  /\ lastCall.op = "updateStadiumVisibility"

(***************************************************************************)
(* C16: updateStadiumVisibility(stadium, visible, duration) sets the       *)
(* visible flag of the stadium and of every mesh to `visible`.  For        *)
(* visible = true with the engine present it issues fade requests to       *)
(* opacity 1.0 with the given duration (0.8 when omitted), and with the    *)
(* engine absent it assigns opacity 1.0 at once; for visible = false it    *)
(* assigns opacity 0.0 to every material at once and issues no request.    *)
(***************************************************************************)
StadiumCallStep == lastCall'.op = "updateStadiumVisibility"

GivenDuration(call, default) ==
  IF call.duration.given THEN call.duration.v ELSE default

\* Number of requests of `reqs` addressed to material m.
RequestsFor(reqs, m) ==
  Cardinality({k \in 1..Len(reqs) : reqs[k].target = <<"material", m>>})

\* Number of references meshes hold to material m.
References(meshes, m) ==
  Cardinality({ij \in UNION {{<<i, j>> : j \in 1..Len(meshes[i].mats)} :
                                 i \in 1..Len(meshes)} :
                 meshes[ij[1]].mats[ij[2]] = m})

\* What the call does apart from the number of requests.
StadiumCallEffect ==
  LET visible == lastCall'.visible
      duration == GivenDuration(lastCall', 8)
      mats == MaterialIds(stadiumObj'.meshes)
  IN  /\ stadiumObj'.visible = visible
      /\ \A i \in 1..Len(stadiumObj'.meshes) :
           stadiumObj'.meshVisible[i] = visible
      /\ \A k \in 1..Len(requests') :
           /\ requests'[k].target[1] = "material"
           /\ requests'[k].target[2] \in mats
           /\ requests'[k].to = [opacity |-> 10]
           /\ requests'[k].duration = duration
      /\ (visible /\ ~gsapPresent) =>
           /\ requests' = <<>>
           /\ \A m \in mats : stadiumObj'.materials[m].opacity = 10
      /\ ~visible =>
           /\ requests' = <<>>
           /\ \A m \in mats : stadiumObj'.materials[m].opacity = 0

\* As stated: exactly one fade request per material.
C16_OneRequestPerMaterial ==
  [][StadiumCallStep =>
       /\ StadiumCallEffect
       /\ (lastCall'.visible /\ gsapPresent) =>
            \A m \in MaterialIds(stadiumObj'.meshes) :
              RequestsFor(requests', m) = 1]_vars

\* Amended: one fade request per material reference held by a mesh, so a
\* material referenced by several meshes receives one request for each
\* reference.
C16_OneRequestPerReference ==
  [][StadiumCallStep =>
       /\ StadiumCallEffect
       /\ (lastCall'.visible /\ gsapPresent) =>
            \A m \in MaterialIds(stadiumObj'.meshes) :
              RequestsFor(requests', m) = References(stadiumObj'.meshes, m)]_vars

\* A show call with the engine present on a stadium whose two meshes share
\* one material: two requests, both for that material.
C16_Witness ==
  /\ lastCall.op = "updateStadiumVisibility"
  /\ lastCall.visible
  /\ ~lastCall.duration.given
  /\ gsapPresent
  /\ References(stadiumObj.meshes, 1) = 2
  /\ RequestsFor(requests, 1) = 2
  /\ stadiumObj.visible

(***************************************************************************)
(* C17: with the engine present Sphere.updateVisibility(visible, duration) *)
(* issues exactly two requests, in this order: an opacity request to 1.0   *)
(* if visible else 0.0, then a scale request with x = y = z = 1.0 if       *)
(* visible else 0.8; both carry the given duration, 0.8 when omitted.      *)
(***************************************************************************)
SphereCallStep == lastCall'.op = "Sphere.updateVisibility"

C17_SphereRequests ==
  [][(SphereCallStep /\ gsapPresent) =>
       LET visible == lastCall'.visible
           duration == GivenDuration(lastCall', 8)
           factor == IF visible THEN 10 ELSE 8
       IN  /\ Len(requests') = 2
           /\ requests'[1] =
                [target |-> <<"sphere", 0>>,
                 to |-> [opacity |-> IF visible THEN 10 ELSE 0],
                 duration |-> duration]
           /\ requests'[2] =
                [target |-> <<"sphere.scale", 0>>,
                 to |-> [x |-> factor, y |-> factor, z |-> factor],
                 duration |-> duration]]_vars

\* A hide call without a duration, the engine present.
C17_Witness ==
  /\ lastCall.op = "Sphere.updateVisibility"
  /\ ~lastCall.visible
  /\ ~lastCall.duration.given
  /\ gsapPresent
  /\ Len(requests) = 2
  /\ requests[1].to.opacity = 0
  /\ requests[2].to.x = 8
  /\ requests[2].duration = 8

(***************************************************************************)
(* C18: with the engine unavailable Sphere.updateVisibility does not       *)
(* throw, for either value of visible, issues no request and leaves the    *)
(* sphere object as it was.                                                *)
(***************************************************************************)
C18_SphereWithoutEngine ==
  [][(SphereCallStep /\ ~gsapPresent) =>
       /\ ~callThrew'
       /\ requests' = <<>>
       /\ sphereObj' = sphereObj]_vars

\* A show call made with the engine unavailable.
C18_Witness ==
  /\ lastCall.op = "Sphere.updateVisibility"
  /\ lastCall.visible
  /\ ~gsapPresent
  /\ ~callThrew
  /\ requests = <<>>
  /\ sphereObj = NewSphere

(***************************************************************************)
(* C19: the profile detectPerformance returns is self-consistent for every *)
(* user agent and core count: isLowEnd = (hardwareConcurrency <= 4 or      *)
(* isMobile), performanceMode is 'low' exactly when isLowEnd (else         *)
(* 'high'), effectsEnabled = not isLowEnd; a desktop with 8 cores is high, *)
(* every mobile device is low, a desktop with 2 cores is low.              *)
(***************************************************************************)
C19_ProfileConsistent ==
  config # <<>> =>
    LET c == config[1]
        cores == env.hardwareConcurrency
    IN  /\ c.isMobile = (env.userAgent \in MobilePatterns)
        /\ c.isLowEnd = (cores <= 4 \/ c.isMobile)
        /\ c.performanceMode \in {"low", "high"}
        /\ (c.performanceMode = "low") = c.isLowEnd
        /\ c.effectsEnabled = ~c.isLowEnd
        /\ (~c.isMobile /\ cores = 8) => c.performanceMode = "high"
        /\ c.isMobile => c.performanceMode = "low"
        /\ (~c.isMobile /\ cores = 2) => c.performanceMode = "low"

\* A desktop with exactly four cores has been profiled as low-end.
C19_Witness ==
  /\ config # <<>>
  /\ env.userAgent = "Macintosh"
  /\ env.hardwareConcurrency = 4
  /\ config[1].isLowEnd
  /\ ~config[1].effectsEnabled

(***************************************************************************)
(* C20: the pixel ratio getPerformanceSettings returns is                  *)
(* min(devicePixelRatio, 2) for a high-end config and                      *)
(* min(devicePixelRatio, 1.5) for a low-end config: never above the        *)
(* device's ratio nor above the cap; a device ratio of 3 gives 2 and 1.5.  *)
(***************************************************************************)
C20_PixelRatioCapped ==
  settings # <<>> =>
    LET dpr == env.devicePixelRatio
        cap == IF settingsInput[1].isLowEnd THEN 15 ELSE 20
        ratio == settings[1].pixelRatio
    IN  /\ ratio = (IF dpr <= cap THEN dpr ELSE cap)
        /\ ratio <= dpr
        /\ ratio <= cap
        /\ dpr = 30 => ratio = cap

\* A low-end config on a device whose ratio lies between the two caps.
C20_Witness ==
  /\ settings # <<>>
  /\ settingsInput[1].isLowEnd
  /\ env.devicePixelRatio = 17
  /\ settings[1].pixelRatio = 15

(***************************************************************************)
(* C21: getPerformanceSettings yields one of two fixed quality profiles,   *)
(* selected by the config: low-end gives antialias, shadows and            *)
(* postProcessing all false and 800 stars, high-end gives all three true   *)
(* and 2000 stars; the three flags are always equal; the settings held     *)
(* are always the profile of the config they were computed from.           *)
(***************************************************************************)
QualityFlags(st) == <<st.antialias, st.shadows, st.postProcessing>>

C21_TwoProfiles ==
  settings # <<>> =>
    LET st == settings[1]
        low == settingsInput[1].isLowEnd
    IN  /\ st.antialias = st.shadows
        /\ st.shadows = st.postProcessing
        /\ low => (QualityFlags(st) = <<FALSE, FALSE, FALSE>>
                     /\ st.particleCount.stars = 800)
        /\ ~low => (QualityFlags(st) = <<TRUE, TRUE, TRUE>>
                      /\ st.particleCount.stars = 2000)
        /\ st.particleCount \in
             { [dust |-> 80, stars |-> 800, smallStars |-> 1000,
                lightDots |-> 500],
               [dust |-> 200, stars |-> 2000, smallStars |-> 2500,
                lightDots |-> 1200] }

\* The settings of a new StadiumApp on a mobile device with eight cores.
C21_Witness ==
  /\ settings # <<>>
  /\ config # <<>>
  /\ settingsInput = config
  /\ env.userAgent = "iPhone"
  /\ env.hardwareConcurrency = 8
  /\ QualityFlags(settings[1]) = <<FALSE, FALSE, FALSE>>
  /\ settings[1].particleCount.stars = 800

(***************************************************************************)
(* C22: stadium normalisation on load.  With maxDim the largest            *)
(* bounding-box dimension, the uniform scale set is 10 when                *)
(* 0 < maxDim < 10, 200 / maxDim when maxDim > 200 and 1 when              *)
(* 10 <= maxDim <= 200; when maxDim = 0 no scale is set.  A too-small      *)
(* model is scaled up (scale > 1) and a too-large model is scaled down to  *)
(* a largest dimension of 200.                                             *)
(***************************************************************************)
ScaledMaxDim(obj) == FloatMul(obj.maxDim, obj.scale)

ScaleAsComputed(obj) ==
  LET d == obj.maxDim
      sc == obj.scale
  IN  /\ d = 0 => (~obj.scaleSet /\ sc = Whole(1))
      /\ d > 0 => obj.scaleSet
      /\ (0 < d /\ d < 10) => (sc = Whole(10) /\ sc.num > sc.den)
      /\ (10 <= d /\ d <= 200) => sc = Whole(1)
      /\ d > 200 => (sc = FloatDiv(200, d) /\ sc.num < sc.den)

\* As stated: the scaled largest dimension is exactly 200.
C22_ScaledToExactly200 ==
  promise.state = "resolved" =>
    /\ ScaleAsComputed(stadiumObj)
    /\ stadiumObj.maxDim > 200 =>
         ScaledMaxDim(stadiumObj).num = 200 * ScaledMaxDim(stadiumObj).den

\* Amended: the scaled largest dimension is 200 up to the rounding of the
\* division and of the multiplication: the relative error is at most
\* 2^-(MantissaBits - 1).
C22_ScaledTo200Rounded ==
  promise.state = "resolved" =>
    /\ ScaleAsComputed(stadiumObj)
    /\ stadiumObj.maxDim > 200 =>
         LET r == ScaledMaxDim(stadiumObj)
         IN  Abs(r.num - 200 * r.den) * Pow2(MantissaBits - 1) <= 200 * r.den

\* A model of size 700 has been loaded and scaled by the rounded 200 / 700.
C22_Witness ==
  /\ promise.state = "resolved"
  /\ stadiumObj.maxDim = 700
  /\ stadiumObj.scaleSet
  /\ stadiumObj.scale = FloatDiv(200, 700)
  /\ stadiumObj.scale.den > 1

(***************************************************************************)
(* C23: for every distance d >= 1 the classifier of the frame returns the  *)
(* first band, in the order sphere, stadium, detail, whose interval        *)
(* [min, max) of SCALE_THRESHOLDS contains d (an infinite max being no     *)
(* bound); the bands are contiguous and do not overlap, so exactly one     *)
(* band contains d.                                                        *)
(***************************************************************************)
Bands ==
  << [name |-> "sphere", min |-> SPHERE_MIN, bounded |-> FALSE, max |-> 0],
     [name |-> "stadium", min |-> STADIUM_MIN, bounded |-> TRUE,
      max |-> STADIUM_MAX],
     [name |-> "detail", min |-> DETAIL_MIN, bounded |-> TRUE,
      max |-> DETAIL_MAX] >>

InBand(b, d) == d >= b.min /\ (b.bounded => d < b.max)

MatchingBands(d) == {i \in 1..Len(Bands) : InBand(Bands[i], d)}

FirstBand(d) ==
  IF MatchingBands(d) = {} THEN "none"
  ELSE Bands[CHOOSE i \in MatchingBands(d) :
               \A j \in MatchingBands(d) : i <= j].name

C23_ClassifierRefinesBands ==
  [][(FrameStep /\ FrameDistance >= 1) =>
       /\ Cardinality(MatchingBands(FrameDistance)) = 1
       /\ lastClass' = FirstBand(FrameDistance)
       /\ \A i \in 1..(Len(Bands) - 1) : Bands[i].min = Bands[i + 1].max]_vars

\* A frame has read a distance just below the sphere threshold.
C23_Witness ==
  /\ cameraZ = SPHERE_MIN - 1
  /\ controls.target = 0
  /\ lastClass = "stadium"
  /\ currentZoomScale = "stadium"

(***************************************************************************)
(* C24: currentZoomScale, sphereVisible and stadiumDetailVisible are       *)
(* written only by the frame callback: the key handler, the resize         *)
(* handler, the intro sequence with its completion callback and the        *)
(* completion of the stadium load leave all three unchanged.               *)
(***************************************************************************)
C24_AppStateWrittenByFrames ==
  [][~FrameStep => UNCHANGED appVars]_vars

\* The scale has been taken to detail by frames, and a load completion, an
\* intro with its completion, a 'g' key jump and a resize have occurred.
C24_Witness ==
  /\ initPc = "ready"
  /\ hasSeenIntroSequence
  /\ lastCmd = SPHERE_START
  /\ aspect = "portrait"
  /\ currentZoomScale = "detail"
  /\ ~sphereVisible
  /\ stadiumDetailVisible

(***************************************************************************)
(* C25: once start() has been called, exactly one frame callback is        *)
(* pending at any time (none before), so a further frame can always run;   *)
(* every frame leaves exactly one successor scheduled, classifies the      *)
(* distance it finds before the controls move the camera, and the scale    *)
(* it leaves for the render is that classification.                        *)
(***************************************************************************)
C25_FrameDriver ==
  [][/\ rafPending' = (IF started' THEN 1 ELSE 0)
     /\ FrameStep =>
          /\ started' /\ rafPending' = 1
          /\ lastClass' = classify(FrameDistance)
          /\ currentZoomScale' = lastClass'
          /\ lastBatch' = (lastClass' # currentZoomScale)]_vars

\* A frame after the first has classified a distance into a new scale,
\* while the controls moved the camera on to a distance of another scale.
C25_Witness ==
  /\ started
  /\ rafPending = 1
  /\ lastBatch
  /\ currentZoomScale = "stadium"
  /\ lastClass = "stadium"
  /\ classify(FrameDistance) = "detail"

(***************************************************************************)
(* C26: frames run while the stadium load is pending; every frame          *)
(* dereferences only objects that exist when it runs, and while the load   *)
(* is pending only objects created by the synchronous part of init(); no   *)
(* frame fails; the intro sequence starts only in the step in which the    *)
(* pending load resolves or rejects.                                       *)
(***************************************************************************)
C26_FramesDuringLoad ==
  [][/\ FrameStep =>
          /\ FrameDereferences(lastCalls')
                \subseteq Created(initPc, stadiumLoaded)
          /\ (loadOutcome = "pending" =>
                FrameDereferences(lastCalls') \subseteq PrefixObjects)
          /\ ~threw'
     /\ introRuns' > introRuns =>
          /\ loadOutcome = "pending"
          /\ loadOutcome' \in {"resolved", "rejected"}]_vars

\* While the load is still pending, frames have taken the scale to detail,
\* issuing sphere and lighting calls, and no intro has started.
C26_Witness ==
  /\ loadOutcome = "pending"
  /\ started
  /\ lastBatch
  /\ currentZoomScale = "detail"
  /\ HasCall(lastCalls, "lighting")
  /\ introRuns = 0

(***************************************************************************)
(* C27: a hide is final until the next show: the step of                   *)
(* updateStadiumVisibility(stadium, false) leaves every stadium material   *)
(* with opacity 0, and while the stadium stays hidden every later step     *)
(* keeps them at 0, whatever fade-in is still in flight.                   *)
(***************************************************************************)
AllTransparent(obj) ==
  \A m \in MaterialIds(obj.meshes) : obj.materials[m].opacity = 0

HideStep ==
  /\ lastCall'.op = "updateStadiumVisibility"
  /\ ~lastCall'.visible

C27_HideIsFinal ==
  [][/\ HideStep => AllTransparent(stadiumObj')
     /\ (~stadiumObj.visible /\ AllTransparent(stadiumObj)
            /\ ~stadiumObj'.visible) => AllTransparent(stadiumObj')]_vars

(***************************************************************************)
(* C28: outside the detail scale the floodlights are stable.  A frame      *)
(* flickers the floodlights only if the scale it leaves is detail; a step  *)
(* that leaves the scale outside detail changes an intensity only to the   *)
(* low level 2.0; and whenever the scale is outside detail the             *)
(* intensities eventually all equal 2.0, unless the scale becomes detail   *)
(* first, and then stay 2.0 for as long as the scale stays outside detail. *)
(***************************************************************************)
AllLow(lights) == \A i \in DOMAIN lights : lights[i] = LowIntensity

C28_StableOutsideDetail ==
  /\ [][currentZoomScale' # "detail" =>
          /\ floodlights' # floodlights => AllLow(floodlights')
          /\ (AllLow(floodlights) /\ lightTweens = <<>>
                 /\ currentZoomScale # "detail") =>
               AllLow(floodlights') /\ lightTweens' = <<>>]_vars
  /\ (currentZoomScale # "detail")
       ~> (currentZoomScale = "detail"
             \/ (AllLow(floodlights) /\ lightTweens = <<>>))

\* With the engine present a frame has taken the scale out of detail,
\* issuing the low-intensity command, and the tween it started has
\* brought the floodlights to 2.0.
C28_Witness ==
  /\ gsapPresent
  /\ currentZoomScale = "stadium"
  /\ lastClass = "stadium"
  /\ HasCall(lastCalls, "lighting")
  /\ lightTweens = <<>>
  /\ AllLow(floodlights)
  /\ floodlights # <<>>

(***************************************************************************)
(* C29: the flicker is bounded: while the scale is detail and no           *)
(* intensity tween is in flight, every floodlight's intensity is within    *)
(* 1.5 + 0.2 of the detail level 8.0 and is not negative.                  *)
(***************************************************************************)
FlickerBand == FlickerAmplitude + RandomAmplitude

C29_FlickerBounded ==
  (currentZoomScale = "detail" /\ lightTweens = <<>>) =>
    \A i \in DOMAIN floodlights :
      /\ Abs(floodlights[i] - DetailIntensity) <= FlickerBand
      /\ floodlights[i] >= 0

(***************************************************************************)
(* C30: the visibility last applied to the sphere object (an animation     *)
(* request issued or a property assigned) equals appState.sphereVisible    *)
(* in every state, with the animation engine present or absent.            *)
(***************************************************************************)
C30_SphereStateApplied == sphereApplied = sphereVisible

====
